---- MODULE Spec2Model ----
(***************************************************************************)
(* A model of biolab/serverfiles (serverfiles/__init__.py): ServerFiles,   *)
(* a read-only view of an HTTP file server, and LocalFiles, the local      *)
(* mirror with .info sidecars, per-path locks and staleness checks.        *)
(*                                                                         *)
(* Three specifications share the variables:                               *)
(*   Spec          one caller, one path, every kind of remote FileInfo,    *)
(*                 a server whose datetime can advance;                    *)
(*   SpecConc      two threads, two paths, a fixed server;                 *)
(*   SpecProgress  the chunk loop of ServerFiles.download on its own.      *)
(***************************************************************************)
EXTENDS Integers, FiniteSets, Sequences, TLC

\* ------------------------------------------------------------------ bounds
MaxSec == 1
MaxFrac == 1
MaxSize == 220
MaxChunk == 3

\* ------------------------------------------------------- program constants
\* 99 callbacks after the body when the size is unknown (range(99)).
TailCallbacks == 99
\* int(lastchunkreport * 10000) at the start of the loop: 0.0001
FirstReport == 1
\* int(0.01 * 10000): the step of lastchunkreport, and its margin in the test
ReportStep == 100
\* the scale that turns the two floats above into integers
ReportScale == 10000

\* -------------------------------------------------------------------- data
Paths == {"p1", "p2"}
Threads == {"t1", "t2"}
SeqPaths == {"p1"}
SeqThreads == {"t1"}

\* "datetime" of a FileInfo: absent, not in the format "%Y-%m-%d %H:%M:%S"
\* ("bad"), or a second s and a sub-second fraction f ("ok").
NoDT == [k |-> "none", s |-> 0, f |-> 0]
BadDT == [k |-> "bad", s |-> 0, f |-> 0]
OkDT(s, f) == [k |-> "ok", s |-> s, f |-> f]
OkDTs == {OkDT(s, f) : s \in 0..MaxSec, f \in 0..MaxFrac}
DateTimes == {NoDT, BadDT} \cup OkDTs

\* "compression" of a FileInfo: absent ("none"), one of the four kinds the
\* module extracts, or any other value ("zip").
TarKinds == {"tar.gz", "tar.bz2"}
StreamKinds == {"gz", "bz2"}
Compressions == {"none", "zip"} \cup TarKinds \cup StreamKinds

FileInfos == [dt : DateTimes, comp : Compressions]
NoInfo == [dt |-> NoDT, comp |-> "none"]
EmptyMap == [p \in {} |-> NoInfo]

\* A local sidecar <p>.info: absent, opened for writing and still empty
\* ("partial": not valid JSON), or holding a FileInfo.
NoSidecar == [k |-> "absent", info |-> NoInfo]
PartialSidecar == [k |-> "partial", info |-> NoInfo]
OkSidecar(i) == [k |-> "ok", info |-> i]

NoFile == [primary |-> "none", tmp |-> FALSE, sidecar |-> NoSidecar]

Ops == {"download", "localpath_download", "remove", "needs_update", "update"}
NoLock == 0
\* The results with which a call returns; every other one is an exception.
Returns == {"ok", "reported", "true", "false"}

MaxLocks == 3
\* requests for __INFO__ that one ServerFiles instance may send
MaxGets == 2
LockIds == 1..MaxLocks
FreeLock == [owner |-> "none", count |-> 0]

\* pfx, todo, out: the prefix, the paths still to visit and the listing of
\* a call that takes a prefix; fs0: the repository as that call found it.
IdleThread ==
    [pc |-> "done", op |-> "none", p |-> "p1", ex |-> TRUE, info |-> NoInfo,
     xt |-> FALSE, res |-> "none", fetched |-> FALSE, lk |-> NoLock,
     again |-> FALSE, ov |-> {}, pre |-> NoFile,
     pfx |-> <<>>, todo |-> {}, out |-> {}, fs0 |-> [p \in Paths |-> NoFile]]

IdleDl ==
    [pc |-> "off", hasLen |-> FALSE, size |-> 0, body |-> 0, cb |-> FALSE,
     readb |-> 0, reports |-> 0, calls |-> 0]

\* No call has been made on the ServerFiles instance yet.
IdleSf ==
    [op |-> "none", pfx |-> <<>>, p |-> "p1", rec |-> TRUE, res |-> "none",
     files |-> {}, info |-> NoInfo, infos |-> EmptyMap, found |-> <<>>,
     asked |-> {}, gets |-> 0, sent |-> FALSE, was |-> "unloaded"]

IdleSr ==
    [pc |-> "off", si |-> <<>>, sstrings |-> <<>>, case_sensitive |-> FALSE,
     in_tag |-> TRUE, in_title |-> TRUE, in_name |-> TRUE, i |-> 0,
     found |-> <<>>]

(***************************************************************************)
(* srv      the server: per path the status of GET <p>, the content of     *)
(*          <p>.info (NoInfo when there is none) and whether the body      *)
(*          decompresses                                                   *)
(* catalog  the server's __INFO__ resource: served or not, whether its     *)
(*          body is a JSON array of [path, info] pairs, and the paths it   *)
(*          lists (each with the path's current FileInfo)                  *)
(* sfinfo   ServerFiles._info: unloaded (None), absent (False) or loaded   *)
(* fs       the local repository: per path the primary artifact, the .tmp  *)
(*          intermediate and the .info sidecar                             *)
(* locks    the registry of _keyed_lock: normalized path -> lock           *)
(* nlocks   the number of locks constructed so far                         *)
(* rlock    each RLock's owner and recursion count                         *)
(* th       each thread's call: position, arguments, locals, result        *)
(* dl       the locals of one ServerFiles.download (SpecProgress)          *)
(* sf       the last call made on the ServerFiles instance itself, its     *)
(*          result and the requests it sent (SpecCatalog)                  *)
(* sr       the arguments and locals of one _search (SpecSearch)           *)
(***************************************************************************)
VARIABLES srv, catalog, sfinfo, fs, locks, nlocks, rlock, th, dl, sf, sr

vars == <<srv, catalog, sfinfo, fs, locks, nlocks, rlock, th, dl, sf, sr>>

\* ------------------------------------------------------------ ServerFiles
\* _download_server_info: one GET of __INFO__ while _info is None.
download_server_info_no_sentinel(c) ==
    IF c.st = "unloaded" /\ catalog.on /\ catalog.ok
    THEN [st |-> "loaded", map |-> [p \in catalog.keys |-> srv[p].info]]
    ELSE c

\* (json.loads of a 200 body that is no array of pairs raises ValueError
\* and leaves _info None.)
download_server_info(c) ==
    IF c.st = "unloaded"
    THEN IF catalog.on
         THEN IF catalog.ok
              THEN [st |-> "loaded",
                    map |-> [p \in catalog.keys |-> srv[p].info]]
              ELSE c
         ELSE [st |-> "absent", map |-> EmptyMap]
    ELSE c

\* _download_server_info sends a request: self._open("__INFO__")
requests_catalog(c) == c.st = "unloaded"

\* _download_server_info raises out of the method that called it
catalog_raises(c) == c.st = "unloaded" /\ catalog.on /\ ~catalog.ok

\* `if self._info:` is true of a non-empty dict only.
info_truthy(c) == c.st = "loaded" /\ DOMAIN c.map # {}

\* ServerFiles.info, after _download_server_info: the snapshot's entry
\* (or {}), else the body of GET <p>.info (or {} when not 200).
server_info(c, p) ==
    IF info_truthy(c)
    THEN IF p \in DOMAIN c.map THEN c.map[p] ELSE NoInfo
    ELSE srv[p].info

\* ---------------------------------------------------------------- strings
\* A string is the sequence of its characters.
startswith(s, pre) == Len(pre) <= Len(s) /\ SubSeq(s, 1, Len(pre)) = pre

endswith(s, suf) ==
    Len(suf) <= Len(s) /\ SubSeq(s, Len(s) - Len(suf) + 1, Len(s)) = suf

Slash == <<"/">>
DotInfo == <<".", "i", "n", "f", "o">>
CatalogName == <<"_", "_", "I", "N", "F", "O", "_", "_">>

\* f.strip("/")
RECURSIVE strip_slash(_)
strip_slash(s) ==
    IF startswith(s, Slash) THEN strip_slash(Tail(s))
    ELSE IF endswith(s, Slash) THEN strip_slash(SubSeq(s, 1, Len(s) - 1))
    ELSE s

\* str.lower(), on the letters the model's strings are made of
lower(ch) == CASE ch = "A" -> "a" [] ch = "B" -> "b" [] OTHER -> ch

str_lower(s) == [i \in 1..Len(s) |-> lower(s[i])]

\* sep.join(parts)
RECURSIVE join_no_separator(_, _)
join_no_separator(sep, parts) ==
    IF Len(parts) = 0 THEN <<>>
    ELSE parts[1] \o join_no_separator(sep, Tail(parts))

RECURSIVE join(_, _)
join(sep, parts) ==
    IF Len(parts) = 0 THEN <<>>
    ELSE IF Len(parts) = 1 THEN parts[1]
    ELSE parts[1] \o sep \o join(sep, Tail(parts))

\* `s in target`
contains(s, target) ==
    \E i \in 0..Len(target) :
       i + Len(s) <= Len(target) /\ SubSeq(target, i + 1, i + Len(s)) = s

\* ------------------------------------------------------------------ _search
\* An entry of the mapping: a path (its segments), and of its info the
\* 'tags' (info.get('tags', [])) and the 'title' (info.get('title', "")).
search_target(e, case_sensitive, in_tag, in_title, in_name) ==
    LET target == (IF in_tag THEN join(<<" ">>, e.tags) ELSE <<>>)
                  \o (IF in_title THEN e.title ELSE <<>>)
                  \o (IF in_name THEN join(<<" ">>, e.path) ELSE <<>>)
    IN IF case_sensitive THEN target ELSE str_lower(target)

\* the loop over sstrings, which ends at the first one that is not found
RECURSIVE search_match(_, _, _)
search_match(target, sstrings, case_sensitive) ==
    IF Len(sstrings) = 0 THEN TRUE
    ELSE LET s == IF case_sensitive THEN Head(sstrings)
                  ELSE str_lower(Head(sstrings))
         IN IF ~contains(s, target) THEN FALSE
            ELSE search_match(target, Tail(sstrings), case_sensitive)

\* _search(si, sstrings, ...): si as the sequence of its items
RECURSIVE search(_, _, _, _, _, _)
search(si, sstrings, case_sensitive, in_tag, in_title, in_name) ==
    IF Len(si) = 0 THEN <<>>
    ELSE LET e == Head(si)
             rest == search(Tail(si), sstrings, case_sensitive,
                            in_tag, in_title, in_name)
         IN IF search_match(search_target(e, case_sensitive, in_tag,
                                          in_title, in_name),
                            sstrings, case_sensitive)
            THEN <<e.path>> \o rest
            ELSE rest

\* ------------------------------------------------------------------- paths
\* The segments of the model's paths: d/a, e/b and, in a directory whose
\* name starts with two underscores, __h/c.
SegD == <<"d">>
SegE == <<"e">>
SegH == <<"_", "_", "h">>

segments(p) ==
    CASE p = "p1" -> <<SegD, <<"a">>>>
      [] p = "p2" -> <<SegE, <<"b">>>>
      [] OTHER -> <<SegH, <<"c">>>>

WebPaths == Paths \cup {"p3"}

path_at(segs) == CHOOSE p \in WebPaths : segments(p) = segs

\* The prefixes a caller lists: the root, each directory, a file, and a
\* path below a file.
Prefixes ==
    {<<>>, <<SegD>>, <<SegE>>, <<SegH>>, segments("p1"),
     Append(segments("p1"), <<"x">>)}

\* _is_prefix(pref, whole)
is_prefix_by_length(pref, whole) == ~(Len(pref) > Len(whole))

is_prefix(pref, whole) ==
    IF Len(pref) > Len(whole) THEN FALSE
    ELSE \A i \in 1..Len(pref) : pref[i] = whole[i]

\* ------------------------------------------------- the server's directories
\* What is below the directory `args` on the server, and the hrefs of the
\* page that GET <args> answers with: a file's name, a directory's name with
\* "/", a sidecar's name with ".info"; __INFO__ at the root. GET of a file
\* or of nothing has no anchors.
Below(args) ==
    {p \in DOMAIN srv :
        /\ Len(args) < Len(segments(p))
        /\ SubSeq(segments(p), 1, Len(args)) = args}

hrefs(args) ==
    {IF Len(segments(p)) = Len(args) + 1
       THEN segments(p)[Len(args) + 1]
       ELSE segments(p)[Len(args) + 1] \o Slash :
          p \in {q \in Below(args) : srv[q].status # 404}}
    \cup {segments(p)[Len(args) + 1] \o DotInfo :
             p \in {q \in Below(args) : /\ Len(segments(q)) = Len(args) + 1
                                         /\ srv[q].info # NoInfo}}
    \cup (IF args = <<>> /\ catalog.on THEN {CatalogName} ELSE {})

\* _FindLinksParser.handle_starttag: ignore navigation and hidden files
find_links(hs) ==
    {h \in hs : ~(\/ startswith(h, <<"?">>) \/ startswith(h, Slash)
                  \/ startswith(h, <<".">>) \/ startswith(h, <<"_", "_">>))}

\* ServerFiles.listfiles, after _download_server_info
RECURSIVE server_listfiles(_, _, _)
server_listfiles(c, args, recursive) ==
    IF info_truthy(c)
    THEN {segments(a) : a \in {k \in DOMAIN c.map : is_prefix(args, segments(k))}}
    ELSE LET links == find_links(hrefs(args))
             files == {Append(args, f) :
                          f \in {l \in links : /\ ~endswith(l, Slash)
                                               /\ ~endswith(l, DotInfo)}}
         IN IF recursive
            THEN files \cup
                 UNION {server_listfiles(c, Append(args, strip_slash(l)), TRUE) :
                           l \in {k \in links : endswith(k, Slash)}}
            ELSE files

\* ServerFiles.allinfo, after _download_server_info
server_allinfo(c, args, recursive) ==
    [f \in server_listfiles(c, args, recursive) |-> server_info(c, path_at(f))]

\* ------------------------------------------------------------- the locks
\* os.path.normpath(os.path.realpath(localpath(*path))): one key per Path.
lock_key(p) == p

\* get_lock of _keyed_lock, run under the registry's own lock.
keyed_lock_fresh(reg, key, fresh) == fresh

keyed_lock(reg, key, fresh) ==
    IF reg[key] # NoLock THEN reg[key] ELSE fresh

\* lock.acquire(True) of an RLock: free, or owned by the caller.
rlock_acquire_nonblocking(l, t) == TRUE

rlock_can_acquire(l, t) == l.owner \in {"none", t}

\* lock.release() of an RLock: the owner gives it up with its last release.
rlock_release_keeps_owner(l) == l

rlock_release(l) ==
    IF l.count <= 1 THEN FreeLock ELSE [l EXCEPT !.count = l.count - 1]

\* -------------------------------------------------------------- threads
Set(t, r) == th' = [th EXCEPT ![t] = r]

At(t, pc) == th[t].pc = pc

\* A call begins: LocalFiles.<op>(p, extract=ex). again: the caller's previous
\* call was this very call (method, path, extract) and returned; ov: the threads whose call of the same method on the same path is in
\* progress now (a new call of theirs ends the overlap).
Call(t, op, p, ex) ==
    /\ At(t, "done")
    /\ th' = [u \in Threads |->
          IF u = t
          THEN [IdleThread EXCEPT
                  !.pc = IF op \in {"needs_update", "update"}
                         THEN "nu_local" ELSE "getlock",
                  !.op = op, !.p = p, !.ex = ex,
                  !.again = /\ th[t].op = op /\ th[t].p = p /\ th[t].ex = ex
                            /\ th[t].res \in Returns,
                  !.ov = {v \in Threads \ {t} :
                            th[v].op = op /\ th[v].p = p /\ th[v].pc # "done"}]
          ELSE [th[u] EXCEPT !.ov = @ \ {t}]]
    /\ UNCHANGED <<srv, catalog, sfinfo, fs, locks, nlocks, rlock, dl, sf, sr>>

\* _lock_file: lock = _get_lock(path)
get_lock(t) ==
    /\ At(t, "getlock")
    /\ LET key == lock_key(th[t].p)
           id == keyed_lock(locks, key, nlocks + 1)
       IN /\ id \in LockIds
          /\ locks' = [locks EXCEPT ![key] = id]
          /\ nlocks' = IF id > nlocks THEN id ELSE nlocks
          /\ Set(t, [th[t] EXCEPT !.pc = "acquire", !.lk = id])
    /\ UNCHANGED <<srv, catalog, sfinfo, fs, rlock, dl, sf, sr>>

BodyStart(op) ==
    CASE op = "localpath_download" -> "lp_check"
      [] op = "remove" -> "rm_check"
      [] OTHER -> "dl_info"

\* _lock_file: lock.acquire(True), then the body of the locked method
acquire(t) ==
    /\ At(t, "acquire")
    /\ rlock_can_acquire(rlock[th[t].lk], t)
    /\ rlock' = [rlock EXCEPT ![th[t].lk] =
                    [owner |-> t, count |-> rlock[th[t].lk].count + 1]]
    /\ Set(t, [th[t] EXCEPT !.pc = BodyStart(th[t].op), !.pre = fs[th[t].p]])
    /\ UNCHANGED <<srv, catalog, sfinfo, fs, locks, nlocks, dl, sf, sr>>

\* The methods that visit every path of a listing: update_all, and a caller
\* that downloads every path the server lists.
LoopOps == {"update_all", "download_listed"}

\* _lock_file: finally: lock.release(); the call returns or raises th[t].res
\* (inside a loop over a listing, a download that returned is followed by
\* the next path)
release(t) ==
    /\ At(t, "unlock")
    /\ rlock' = [rlock EXCEPT ![th[t].lk] = rlock_release(rlock[th[t].lk])]
    /\ Set(t, [th[t] EXCEPT !.pc = IF th[t].op \in LoopOps /\ th[t].res = "ok"
                                   THEN "for_next" ELSE "done",
                            !.info = NoInfo, !.xt = FALSE,
                            !.lk = NoLock, !.pre = NoFile])
    /\ UNCHANGED <<srv, catalog, sfinfo, fs, locks, nlocks, dl, sf, sr>>

\* ------------------------------------------------------ LocalFiles.download
SetFs(p, f) == fs' = [fs EXCEPT ![p] = f]

\* info = self.serverfiles.info(*path); extract = extract and "compression" in info
download_info(t) ==
    /\ At(t, "dl_info")
    /\ sfinfo' = download_server_info(sfinfo)
    /\ LET i == server_info(sfinfo', th[t].p)
       IN Set(t, [th[t] EXCEPT !.pc = "dl_fetch", !.info = i,
                              !.xt = th[t].ex /\ i.comp # "none"])
    /\ UNCHANGED <<srv, catalog, fs, locks, nlocks, rlock, dl, sf, sr>>

\* ServerFiles.download: `if response.status_code == 404: raise
\* FileNotFoundError; elif response.status_code != 200: raise IOError`
response_error_404_only(status) ==
    IF status = 404 THEN "NotFound" ELSE "none"

response_error(status) ==
    CASE status = 404 -> "NotFound"
      [] status # 200 -> "IOError"
      [] OTHER -> "none"

\* What LocalFiles.download does once the remote download has returned:
\* _save_file_info(target + '.info', info), whatever `extract` is.
extract_before_save(xt) == IF xt THEN "dl_extract" ELSE "dl_save"

after_fetch(xt) == "dl_save"

\* self.serverfiles.download(*path, target=target + ".tmp" if extract else target):
\* a status other than 200 raises before anything is written; the body is
\* then copied to the target (open(target, "wb") raises on a directory).
download_fetch(t) ==
    /\ At(t, "dl_fetch")
    /\ LET p == th[t].p
           f == fs[p]
       IN IF response_error(srv[p].status) # "none"
          THEN /\ Set(t, [th[t] EXCEPT !.pc = "unlock",
                                       !.res = response_error(srv[p].status)])
               /\ UNCHANGED fs
          ELSE   IF ~th[t].xt /\ f.primary = "dir"
                 THEN /\ Set(t, [th[t] EXCEPT !.pc = "unlock", !.res = "IOError"])
                      /\ UNCHANGED fs
                 ELSE /\ Set(t, [th[t] EXCEPT !.pc = after_fetch(th[t].xt),
                                              !.fetched = TRUE])
                      /\ SetFs(p, IF th[t].xt THEN [f EXCEPT !.tmp = TRUE]
                                  ELSE [f EXCEPT !.primary = "file"])
    /\ UNCHANGED <<srv, catalog, sfinfo, locks, nlocks, rlock, dl, sf, sr>>

\* _save_file_info: open(fname, 'wt') truncates the sidecar
save_file_info_open(t) ==
    /\ At(t, "dl_save")
    /\ SetFs(th[t].p, [fs[th[t].p] EXCEPT !.sidecar = PartialSidecar])
    /\ Set(t, [th[t] EXCEPT !.pc = "dl_dump"])
    /\ UNCHANGED <<srv, catalog, sfinfo, locks, nlocks, rlock, dl, sf, sr>>

\* _save_file_info: json.dump(info, f) and close; `if not extract: return`
save_file_info_dump(t) ==
    /\ At(t, "dl_dump")
    /\ SetFs(th[t].p, [fs[th[t].p] EXCEPT !.sidecar = OkSidecar(th[t].info)])
    /\ Set(t, IF th[t].xt THEN [th[t] EXCEPT !.pc = "dl_extract"]
              ELSE [th[t] EXCEPT !.pc = "unlock", !.res = "ok"])
    /\ UNCHANGED <<srv, catalog, sfinfo, locks, nlocks, rlock, dl, sf, sr>>

\* The dispatch on info.get("compression"): what is at the target afterwards
\* and whether the branch raised. A tar archive is opened first (a bad one
\* raises before the target is touched), os.mkdir's OSError is swallowed and
\* extractall needs a directory; gz and bz2 open the target for writing
\* (which creates it, and raises on a directory) before the first read.
extract(comp, primary, bodyOk) ==
    CASE comp \in TarKinds ->
           IF ~bodyOk THEN [primary |-> primary, raised |-> TRUE]
           ELSE IF primary = "file" THEN [primary |-> primary, raised |-> TRUE]
           ELSE [primary |-> "dir", raised |-> FALSE]
      [] comp \in StreamKinds ->
           IF primary = "dir" THEN [primary |-> primary, raised |-> TRUE]
           ELSE [primary |-> "file", raised |-> ~bodyOk]
      [] OTHER -> [primary |-> primary, raised |-> FALSE]

download_extract(t) ==
    /\ At(t, "dl_extract")
    /\ LET p == th[t].p
           r == extract(th[t].info.comp, fs[p].primary, srv[p].bodyOk)
       IN /\ SetFs(p, [fs[p] EXCEPT !.primary = r.primary])
          /\ Set(t, IF r.raised
                    THEN [th[t] EXCEPT !.pc = "unlock", !.res = "ExtractError"]
                    ELSE [th[t] EXCEPT !.pc = "dl_rmtmp"])
    /\ UNCHANGED <<srv, catalog, sfinfo, locks, nlocks, rlock, dl, sf, sr>>

\* os.remove(target + ".tmp")
download_remove_tmp(t) ==
    /\ At(t, "dl_rmtmp")
    /\ SetFs(th[t].p, [fs[th[t].p] EXCEPT !.tmp = FALSE])
    /\ Set(t, [th[t] EXCEPT !.pc = "unlock", !.res = "ok"])
    /\ UNCHANGED <<srv, catalog, sfinfo, locks, nlocks, rlock, dl, sf, sr>>

\* ------------------------------------------- LocalFiles.localpath_download
\* if not os.path.exists(pathname): self.download.unwrapped(...)
path_exists(f) == f.primary # "none"

localpath_download(t) ==
    /\ At(t, "lp_check")
    /\ Set(t, IF path_exists(fs[th[t].p])
              THEN [th[t] EXCEPT !.pc = "unlock", !.res = "ok"]
              ELSE [th[t] EXCEPT !.pc = "dl_info"])
    /\ UNCHANGED <<srv, catalog, sfinfo, fs, locks, nlocks, rlock, dl, sf, sr>>

\* -------------------------------------------------------- LocalFiles.remove
\* if os.path.exists(path + ".info"): ... else: raise FileNotFoundError
sidecar_exists_checks_path(f) == f.primary # "none"

sidecar_exists(f) == f.sidecar.k # "absent"

remove_check(t) ==
    /\ At(t, "rm_check")
    /\ Set(t, IF sidecar_exists(fs[th[t].p])
              THEN [th[t] EXCEPT !.pc = "rm_primary"]
              ELSE [th[t] EXCEPT !.pc = "unlock", !.res = "NotFound"])
    /\ UNCHANGED <<srv, catalog, sfinfo, fs, locks, nlocks, rlock, dl, sf, sr>>

\* shutil.rmtree(path) or os.remove(path); an OSError is printed and ends
\* the try block (the sidecar is then not removed either).
remove_primary(t, OsErrors) ==
    /\ At(t, "rm_primary")
    /\ \E oserror \in OsErrors \cup {FALSE} :
          IF fs[th[t].p].primary = "none"
          THEN /\ ~oserror
               /\ Set(t, [th[t] EXCEPT !.pc = "rm_info"])
               /\ UNCHANGED fs
          ELSE IF oserror
          THEN /\ Set(t, [th[t] EXCEPT !.pc = "unlock", !.res = "reported"])
               /\ UNCHANGED fs
          ELSE /\ Set(t, [th[t] EXCEPT !.pc = "rm_info"])
               /\ SetFs(th[t].p, [fs[th[t].p] EXCEPT !.primary = "none"])
    /\ UNCHANGED <<srv, catalog, sfinfo, locks, nlocks, rlock, dl, sf, sr>>

\* os.remove(path + ".info"); an OSError is printed
remove_info(t, OsErrors) ==
    /\ At(t, "rm_info")
    /\ \E oserror \in OsErrors \cup {FALSE} :
          IF oserror
          THEN /\ Set(t, [th[t] EXCEPT !.pc = "unlock", !.res = "reported"])
               /\ UNCHANGED fs
          ELSE /\ Set(t, [th[t] EXCEPT !.pc = "unlock", !.res = "ok"])
               /\ SetFs(th[t].p, [fs[th[t].p] EXCEPT !.sidecar = NoSidecar])
    /\ UNCHANGED <<srv, catalog, sfinfo, locks, nlocks, rlock, dl, sf, sr>>

\* -------------------------------------------------- LocalFiles.needs_update
\* datetime.strptime(info["datetime"][:19], dt_fmt): the first 19 characters
\* hold the date and the whole seconds; the fraction after them is cut off.
strptime19(dt) == [k |-> dt.k, v |-> dt.s]

\* dt_server > dt_local
dt_newer_or_equal(server, local) == server.v >= local.v

dt_newer(server, local) == server.v > local.v

\* linfo = self.info(*path); dt_local = strptime(linfo["datetime"][:19]):
\* a missing sidecar raises FileNotFoundError and a missing key KeyError,
\* both caught (True); json.load and strptime raise ValueError, not caught.
local_stage(sc) ==
    CASE sc.k = "absent" -> "true"
      [] sc.k = "partial" -> "ValueError"
      [] sc.info.dt.k = "none" -> "true"
      [] sc.info.dt.k = "bad" -> "ValueError"
      [] OTHER -> "go"

\* dt_server = strptime(self.serverfiles.info(*path)["datetime"][:19]);
\* return dt_server > dt_local
remote_stage(rinfo, linfo) ==
    CASE rinfo.dt.k = "none" -> "true"
      [] rinfo.dt.k = "bad" -> "ValueError"
      [] OTHER -> IF dt_newer(strptime19(rinfo.dt), strptime19(linfo.dt))
                  THEN "true" ELSE "false"

\* What needs_update(p) returns ("true", "false") or raises, run from the
\* current state without interference.
needs_update(p) ==
    IF local_stage(fs[p].sidecar) # "go"
    THEN local_stage(fs[p].sidecar)
    ELSE remote_stage(server_info(download_server_info(sfinfo), p),
                      fs[p].sidecar.info)

\* update: `if self.needs_update(*path): self.download(*path, **kwargs)`
download_unconditionally(r, res) == [r EXCEPT !.pc = "getlock"]

AfterNeedsUpdate(r, res) ==
    IF r.op \in {"update", "update_all"} /\ res = "true"
    THEN [r EXCEPT !.pc = "getlock"]
    ELSE IF r.op = "update_all" /\ res = "false"
    THEN [r EXCEPT !.pc = "for_next", !.info = NoInfo]
    ELSE [r EXCEPT !.pc = "done", !.info = NoInfo,
                   !.res = IF r.op = "update" /\ res = "false" THEN "ok" ELSE res]

needs_update_local(t) ==
    /\ At(t, "nu_local")
    /\ LET sc == fs[th[t].p].sidecar
       IN Set(t, IF local_stage(sc) = "go"
                 THEN [th[t] EXCEPT !.pc = "nu_remote", !.info = sc.info]
                 ELSE AfterNeedsUpdate(th[t], local_stage(sc)))
    /\ UNCHANGED <<srv, catalog, sfinfo, fs, locks, nlocks, rlock, dl, sf, sr>>

needs_update_remote(t) ==
    /\ At(t, "nu_remote")
    /\ sfinfo' = download_server_info(sfinfo)
    /\ Set(t, AfterNeedsUpdate(th[t],
                 remote_stage(server_info(sfinfo', th[t].p), th[t].info)))
    /\ UNCHANGED <<srv, catalog, fs, locks, nlocks, rlock, dl, sf, sr>>

\* -------------------------------------------------------------- the server
\* The server's copy of p gets a later datetime (its __INFO__ entry with it).
LaterDTs(d) == {e \in OkDTs : e.s > d.s \/ (e.s = d.s /\ e.f > d.f)}

server_touch(p) ==
    /\ srv[p].info.dt.k = "ok"
    /\ \E e \in LaterDTs(srv[p].info.dt) :
          srv' = [srv EXCEPT ![p].info.dt = e]
    /\ UNCHANGED <<catalog, sfinfo, fs, locks, nlocks, rlock, th, dl, sf, sr>>

\* ------------------------------------------------------------ Init and Next
ServerFile == [status : {200, 404, 500}, info : FileInfos, bodyOk : BOOLEAN]

\* A body that does not decompress matters for a served, compressed file only.
Relevant(f) ==
    f.bodyOk \/ (f.status = 200 /\ f.info.comp \in TarKinds \cup StreamKinds)

PlainFile == [status |-> 200, info |-> [dt |-> OkDT(0, 0), comp |-> "none"],
              bodyOk |-> TRUE]

Catalogs == {[on |-> FALSE, ok |-> TRUE, keys |-> {}]} \cup [on : {TRUE}, ok : {TRUE}, keys : SUBSET Paths]

InitLocal ==
    /\ sfinfo = [st |-> "unloaded", map |-> EmptyMap]
    /\ fs = [p \in Paths |-> NoFile]
    /\ locks = [p \in Paths |-> NoLock]
    /\ nlocks = 0
    /\ rlock = [l \in LockIds |-> FreeLock]
    /\ th = [t \in Threads |-> IdleThread]
    /\ sf = IdleSf
    /\ sr = IdleSr

Init ==
    /\ srv \in {f \in [Paths -> ServerFile] :
                  /\ \A p \in Paths : Relevant(f[p])
                  /\ \A p \in Paths \ SeqPaths : f[p] = PlainFile}
    /\ catalog \in Catalogs
    /\ InitLocal
    /\ dl = IdleDl

\* OsErrors: {TRUE} when a deletion may fail with an OSError, {} when none does.
Step(t, OsErrors) ==
    \/ get_lock(t)
    \/ acquire(t)
    \/ release(t)
    \/ download_info(t)
    \/ download_fetch(t)
    \/ save_file_info_open(t)
    \/ save_file_info_dump(t)
    \/ download_extract(t)
    \/ download_remove_tmp(t)
    \/ localpath_download(t)
    \/ remove_check(t)
    \/ remove_primary(t, OsErrors)
    \/ remove_info(t, OsErrors)
    \/ needs_update_local(t)
    \/ needs_update_remote(t)

Next ==
    \/ \E t \in SeqThreads : Step(t, {TRUE})
    \/ \E t \in SeqThreads, op \in Ops, p \in SeqPaths, ex \in BOOLEAN :
          Call(t, op, p, ex)
    \/ \E p \in SeqPaths : server_touch(p)

Spec == Init /\ [][Next]_vars

\* --------------------------------------------------------------- SpecTracked
\* A caller that uses download, localpath_download, update and remove and
\* goes on to its next call only when the last one returned without raising.
TrackedOps == {"download", "localpath_download", "update", "remove"}

CallAfterReturn(t, op, p, ex) ==
    /\ th[t].res \in Returns \cup {"none"}
    /\ Call(t, op, p, ex)

NextTracked ==
    \/ \E t \in SeqThreads : Step(t, {TRUE})
    \/ \E t \in SeqThreads, op \in TrackedOps, p \in SeqPaths, ex \in BOOLEAN :
          CallAfterReturn(t, op, p, ex)
    \/ \E p \in SeqPaths : server_touch(p)

SpecTracked == Init /\ [][NextTracked]_vars

\* ------------------------------------------------------------------ SpecConc
\* Two threads on two paths; the server is fixed and no deletion fails.
ConcFiles ==
    {PlainFile, [PlainFile EXCEPT !.status = 404],
     [PlainFile EXCEPT !.info.comp = "gz"]}

InitConc ==
    /\ srv \in {f \in [Paths -> ConcFiles] :
                  \A p \in Paths \ SeqPaths : f[p] = PlainFile}
    /\ catalog = [on |-> FALSE, ok |-> TRUE, keys |-> {}]
    /\ InitLocal
    /\ dl = IdleDl

NextConc ==
    \/ \E t \in Threads : Step(t, {})
    \/ \E t \in Threads, op \in Ops, p \in Paths : Call(t, op, p, TRUE)

SpecConc == InitConc /\ [][NextConc]_vars

\* --------------------------------------------------------------- SpecCatalog
\* One caller of a ServerFiles instance; the server does not change.
\* sf.gets counts the requests for __INFO__, sf.sent tells whether the last
\* call sent one, sf.was is _info as the call found it, sf.asked the paths
\* whose .info the call requested.
SfBegin(op) ==
    [IdleSf EXCEPT !.op = op, !.was = sfinfo.st,
                   !.sent = requests_catalog(sfinfo),
                   !.gets = sf.gets + IF requests_catalog(sfinfo) THEN 1 ELSE 0]

SfRest == <<srv, catalog, fs, locks, nlocks, rlock, th, dl, sr>>

\* sf.listfiles(*pfx, recursive=rec)
server_listfiles_call(pfx, rec) ==
    /\ sf.gets < MaxGets
    /\ sfinfo' = download_server_info(sfinfo)
    /\ sf' = IF catalog_raises(sfinfo)
             THEN [SfBegin("listfiles") EXCEPT !.pfx = pfx, !.rec = rec,
                                               !.res = "ValueError"]
             ELSE [SfBegin("listfiles") EXCEPT
                      !.pfx = pfx, !.rec = rec, !.res = "ok",
                      !.files = server_listfiles(sfinfo', pfx, rec)]
    /\ UNCHANGED SfRest

\* sf.info(*p)
server_info_call(p) ==
    /\ sf.gets < MaxGets
    /\ sfinfo' = download_server_info(sfinfo)
    /\ sf' = IF catalog_raises(sfinfo)
             THEN [SfBegin("info") EXCEPT !.p = p, !.res = "ValueError"]
             ELSE [SfBegin("info") EXCEPT
                      !.p = p, !.res = "ok",
                      !.info = server_info(sfinfo', p),
                      !.asked = IF info_truthy(sfinfo') THEN {} ELSE {p}]
    /\ UNCHANGED SfRest

\* sf.allinfo(*pfx, recursive=rec)
server_allinfo_call(pfx, rec) ==
    /\ sf.gets < MaxGets
    /\ sfinfo' = download_server_info(sfinfo)
    /\ sf' = IF catalog_raises(sfinfo)
             THEN [SfBegin("allinfo") EXCEPT !.pfx = pfx, !.rec = rec,
                                             !.res = "ValueError"]
             ELSE [SfBegin("allinfo") EXCEPT
                      !.pfx = pfx, !.rec = rec, !.res = "ok",
                      !.files = server_listfiles(sfinfo', pfx, rec),
                      !.infos = server_allinfo(sfinfo', pfx, rec),
                      !.asked = IF info_truthy(sfinfo') THEN {}
                                ELSE {path_at(f) :
                                        f \in server_listfiles(sfinfo', pfx, rec)}]
    /\ UNCHANGED SfRest

\* The items of a snapshot, in the order in which the server names the paths.
PathOrder == <<"p1", "p2", "p3">>

items(map) ==
    LET keys == SelectSeq(PathOrder, LAMBDA p : p \in DOMAIN map)
    IN [i \in 1..Len(keys) |->
          [path |-> segments(keys[i]), tags |-> <<>>, title |-> <<>>]]

\* sf.search(sstrings): `if self._info is None or self._info is False:
\* self._info = self.allinfo()`, then _search(self._info, sstrings)
server_search_call(sstrings) ==
    /\ sf.gets < MaxGets
    /\ LET c == download_server_info(sfinfo)
           all == server_allinfo(c, <<>>, TRUE)
       IN /\ sfinfo' =
                IF sfinfo.st = "loaded" \/ catalog_raises(sfinfo) THEN sfinfo
                ELSE [st |-> "loaded",
                      map |-> [p \in {path_at(f) : f \in DOMAIN all} |->
                                 all[segments(p)]]]
          /\ sf' = IF catalog_raises(sfinfo)
                   THEN [SfBegin("search") EXCEPT !.res = "ValueError"]
                   ELSE [SfBegin("search") EXCEPT
                            !.res = "ok",
                            !.asked = IF sfinfo.st = "loaded" \/ info_truthy(c)
                                      THEN {}
                                      ELSE {path_at(f) : f \in DOMAIN all},
                            !.found = search(items(sfinfo'.map), sstrings,
                                             FALSE, TRUE, TRUE, TRUE)]
    /\ UNCHANGED SfRest

\* The server of SpecCatalog: three paths, each a file with a .info, a
\* file without one, or nothing; __INFO__ missing, not a JSON array of
\* pairs, or listing some of the paths.
CatalogFiles ==
    {PlainFile, [PlainFile EXCEPT !.info = NoInfo],
     [PlainFile EXCEPT !.status = 404, !.info = NoInfo]}

WebCatalogs ==
    {[on |-> FALSE, ok |-> TRUE, keys |-> {}],
     [on |-> TRUE, ok |-> FALSE, keys |-> {}]}
    \cup [on : {TRUE}, ok : {TRUE}, keys : SUBSET WebPaths]

SfQueries == {<<<<"a">>>>, <<<<"D">>, <<"a">>>>, <<<<"d", " ", "a">>>>}

InitCatalog ==
    /\ srv \in [WebPaths -> CatalogFiles]
    /\ catalog \in WebCatalogs
    /\ InitLocal
    /\ dl = IdleDl

NextCatalog ==
    \/ \E pfx \in Prefixes, rec \in BOOLEAN : server_listfiles_call(pfx, rec)
    \/ \E p \in WebPaths : server_info_call(p)
    \/ \E pfx \in Prefixes, rec \in BOOLEAN : server_allinfo_call(pfx, rec)
    \/ \E q \in SfQueries : server_search_call(q)

SpecCatalog == InitCatalog /\ [][NextCatalog]_vars

\* ---------------------------------------------------- LocalFiles.listfiles
\* os.walk(self.localpath(*path)): the .info files below the directory (a
\* prefix that names a file, or nothing, has nothing below it).
every_path_below(pfx) ==
    {p \in Paths : /\ Len(pfx) < Len(segments(p))
                   /\ SubSeq(segments(p), 1, Len(pfx)) = pfx}

all_files(pfx) == every_path_below(pfx)

info_files(pfx) == {p \in every_path_below(pfx) : fs[p].sidecar.k # "absent"}

\* _open_file_info(os.path.join(root, f)) raises ValueError (json.load)
open_file_info_never_raises(sc) == FALSE

open_file_info_raises(sc) == sc.k = "partial"

local_listfiles(pfx) ==
    {segments(p) :
       p \in {q \in info_files(pfx) : /\ path_exists(fs[q])
                                      /\ ~open_file_info_raises(fs[q].sidecar)}}

\* LocalFiles.allinfo
local_allinfo(pfx) ==
    [f \in local_listfiles(pfx) |-> fs[path_at(f)].sidecar.info]

\* A call that takes a prefix begins.
PrefixOps == {"listfiles"} \cup LoopOps

CallPrefix(t, op, pfx) ==
    /\ At(t, "done")
    /\ th' = [u \in Threads |->
          IF u = t
          THEN [IdleThread EXCEPT !.pc = "list", !.op = op, !.pfx = pfx,
                                  !.fs0 = fs]
          ELSE [th[u] EXCEPT !.ov = @ \ {t}]]
    /\ UNCHANGED <<srv, catalog, sfinfo, fs, locks, nlocks, rlock, dl, sf, sr>>

\* lf.listfiles(*pfx)
local_listfiles_call(t) ==
    /\ At(t, "list") /\ th[t].op = "listfiles"
    /\ Set(t, [th[t] EXCEPT !.pc = "done", !.res = "ok",
                            !.out = local_listfiles(th[t].pfx)])
    /\ UNCHANGED <<srv, catalog, sfinfo, fs, locks, nlocks, rlock, dl, sf, sr>>

\* update_all: `for fu in self.listfiles(*path)`
update_all_list(t) ==
    /\ At(t, "list") /\ th[t].op = "update_all"
    /\ Set(t, [th[t] EXCEPT !.pc = "for_next",
                            !.todo = {path_at(f) : f \in local_listfiles(th[t].pfx)}])
    /\ UNCHANGED <<srv, catalog, sfinfo, fs, locks, nlocks, rlock, dl, sf, sr>>

\* A caller that mirrors a prefix: `for f in sf.listfiles(*pfx): lf.download(*f)`
download_listed_list(t) ==
    /\ At(t, "list") /\ th[t].op = "download_listed"
    /\ ~catalog_raises(sfinfo)
    /\ sfinfo' = download_server_info(sfinfo)
    /\ Set(t, [th[t] EXCEPT
                 !.pc = "for_next",
                 !.todo = {path_at(f) :
                             f \in server_listfiles(sfinfo', th[t].pfx, TRUE)}])
    /\ UNCHANGED <<srv, catalog, fs, locks, nlocks, rlock, dl, sf, sr>>

\* The next path of the loop: self.update(*fu), or lf.download(*f); the
\* call returns when none is left.
for_next(t) ==
    /\ At(t, "for_next")
    /\ IF th[t].todo = {}
       THEN Set(t, [th[t] EXCEPT !.pc = "done", !.res = "ok"])
       ELSE \E p \in th[t].todo :
               Set(t, [th[t] EXCEPT
                         !.pc = IF th[t].op = "update_all" THEN "nu_local"
                                ELSE "getlock",
                         !.p = p, !.todo = @ \ {p}, !.res = "none",
                         !.fetched = FALSE])
    /\ UNCHANGED <<srv, catalog, sfinfo, fs, locks, nlocks, rlock, dl, sf, sr>>

\* ----------------------------------------------------------------- SpecMirror
\* One caller, two paths, a server that does not change, and a repository
\* directory that an earlier process may have left files in: a tracked file,
\* a file whose sidecar was never written (Orphan), a file whose sidecar was
\* opened and not yet dumped when the process ended (Crashed).
Tracked == [primary |-> "file", tmp |-> FALSE, sidecar |-> OkSidecar(PlainFile.info)]
Orphan == [primary |-> "file", tmp |-> FALSE, sidecar |-> NoSidecar]
Crashed == [primary |-> "file", tmp |-> FALSE, sidecar |-> PartialSidecar]

MirrorFiles ==
    {PlainFile, [PlainFile EXCEPT !.info.dt = OkDT(MaxSec, 0)],
     [PlainFile EXCEPT !.info = NoInfo],
     [PlainFile EXCEPT !.info.comp = "gz"],
     [PlainFile EXCEPT !.info.comp = "zip"],
     [PlainFile EXCEPT !.status = 404],
     [PlainFile EXCEPT !.status = 500]}

MirrorCatalogs ==
    {[on |-> FALSE, ok |-> TRUE, keys |-> {}],
     [on |-> TRUE, ok |-> TRUE, keys |-> {}],
     [on |-> TRUE, ok |-> TRUE, keys |-> Paths]}

InitMirror ==
    /\ srv \in {f \in [Paths -> MirrorFiles] :
                  \A p \in Paths \ SeqPaths :
                     f[p] \in {PlainFile, [PlainFile EXCEPT !.status = 404]}}
    /\ catalog \in MirrorCatalogs
    /\ sfinfo = [st |-> "unloaded", map |-> EmptyMap]
    /\ fs \in {f \in [Paths -> {NoFile, Tracked, Orphan, Crashed}] :
                 \A p \in Paths \ SeqPaths : f[p] # Crashed}
    /\ locks = [p \in Paths |-> NoLock]
    /\ nlocks = 0
    /\ rlock = [l \in LockIds |-> FreeLock]
    /\ th = [t \in Threads |-> IdleThread]
    /\ sf = IdleSf
    /\ sr = IdleSr
    /\ dl = IdleDl

NextMirror ==
    \/ \E t \in SeqThreads :
          \/ get_lock(t)
          \/ acquire(t)
          \/ release(t)
          \/ download_info(t)
          \/ download_fetch(t)
          \/ save_file_info_open(t)
          \/ save_file_info_dump(t)
          \/ download_extract(t)
          \/ download_remove_tmp(t)
          \/ remove_check(t)
          \/ remove_primary(t, {})
          \/ remove_info(t, {})
          \/ needs_update_local(t)
          \/ needs_update_remote(t)
          \/ local_listfiles_call(t)
          \/ update_all_list(t)
          \/ download_listed_list(t)
          \/ for_next(t)
    \/ \E t \in SeqThreads, op \in {"download", "remove"}, p \in Paths :
          Call(t, op, p, TRUE)
    \/ \E t \in SeqThreads, op \in PrefixOps, pfx \in Prefixes :
          CallPrefix(t, op, pfx)

SpecMirror == InitMirror /\ [][NextMirror]_vars

\* ---------------------------------------------------------------- SpecSearch
\* _search on its own: for path, info in si.items(): ... found.append(path)
SrRest == <<srv, catalog, sfinfo, fs, locks, nlocks, rlock, th, dl, sf>>

search_step ==
    /\ sr.pc = "loop"
    /\ sr.i < Len(sr.si)
    /\ LET e == sr.si[sr.i + 1]
           target == search_target(e, sr.case_sensitive, sr.in_tag,
                                   sr.in_title, sr.in_name)
       IN sr' = [sr EXCEPT
                   !.i = @ + 1,
                   !.found = IF search_match(target, sr.sstrings,
                                             sr.case_sensitive)
                             THEN Append(@, e.path) ELSE @]
    /\ UNCHANGED SrRest

\* return found
search_return ==
    /\ sr.pc = "loop"
    /\ sr.i = Len(sr.si)
    /\ sr' = [sr EXCEPT !.pc = "done"]
    /\ UNCHANGED SrRest

\* The entries of the mappings searched: tags "A" and "b", title "Ba", path
\* d/ab; no tags, no title, path d/b; tag "ab", title "A", path a.
SearchEntries ==
    {[path |-> <<<<"d">>, <<"a", "b">>>>, tags |-> <<<<"A">>, <<"b">>>>,
      title |-> <<"B", "a">>],
     [path |-> <<<<"d">>, <<"b">>>>, tags |-> <<>>, title |-> <<>>],
     [path |-> <<<<"a">>>>, tags |-> <<<<"a", "b">>>>, title |-> <<"A">>]}

MaxEntries == 2
MaxQueries == 2

\* The mappings: sequences of entries with distinct paths.
SearchMaps ==
    {si \in UNION {[1..n -> SearchEntries] : n \in 0..MaxEntries} :
        \A i, j \in 1..Len(si) : i # j => si[i].path # si[j].path}

SearchStrings == {<<>>, <<"A">>, <<"a", "b">>, <<"a", " ", "b">>, <<"a", "d">>}

SearchQueries == UNION {[1..n -> SearchStrings] : n \in 0..MaxQueries}

InitSearch ==
    /\ \E si \in SearchMaps, q \in SearchQueries,
          cs \in BOOLEAN, tg \in BOOLEAN, ti \in BOOLEAN, nm \in BOOLEAN :
          sr = [IdleSr EXCEPT !.pc = "loop", !.si = si, !.sstrings = q,
                              !.case_sensitive = cs, !.in_tag = tg,
                              !.in_title = ti, !.in_name = nm]
    /\ srv = [p \in Paths |-> PlainFile]
    /\ catalog = [on |-> FALSE, ok |-> TRUE, keys |-> {}]
    /\ sfinfo = [st |-> "unloaded", map |-> EmptyMap]
    /\ fs = [p \in Paths |-> NoFile]
    /\ locks = [p \in Paths |-> NoLock]
    /\ nlocks = 0
    /\ rlock = [l \in LockIds |-> FreeLock]
    /\ th = [t \in Threads |-> IdleThread]
    /\ sf = IdleSf
    /\ dl = IdleDl

NextSearch ==
    \/ search_step
    \/ search_return

SpecSearch == InitSearch /\ [][NextSearch]_vars

\* ------------------------------------------------- ServerFiles.download loop
\* size = response.headers.get('content-length'); if size: size = int(size).
\* `size` is then false when the header is missing and when it is "0".
size_truthy(d) == d.hasLen /\ d.size # 0

\* float(readb) / size > lastchunkreport + 0.01, where lastchunkreport is
\* 0.0001 + 0.01 * reports; both sides times 10000 * size.
report_due_no_margin(d) ==
    /\ size_truthy(d)
    /\ d.readb * ReportScale >= (ReportStep * d.reports + ReportStep) * d.size

report_due(d) ==
    /\ size_truthy(d)
    /\ d.readb * ReportScale >
          (FirstReport + ReportStep * d.reports + ReportStep) * d.size

Called(d, n) == IF d.cb THEN d.calls + n ELSE d.calls

Others == <<srv, catalog, sfinfo, fs, locks, nlocks, rlock, th, sf, sr>>

\* for buf in response.iter_content(chunksize): readb += len(buf)
progress_read(n) ==
    /\ dl.pc = "read"
    /\ dl.readb + n <= dl.body
    /\ dl' = [dl EXCEPT !.pc = "report", !.readb = @ + n]
    /\ UNCHANGED Others

\* one turn of the while loop: lastchunkreport += 0.01; callback()
progress_report ==
    /\ dl.pc = "report"
    /\ report_due(dl)
    /\ dl' = [dl EXCEPT !.reports = @ + 1, !.calls = Called(dl, 1)]
    /\ UNCHANGED Others

\* the while loop ends: f.write(buf)
progress_write ==
    /\ dl.pc = "report"
    /\ ~report_due(dl)
    /\ dl' = [dl EXCEPT !.pc = "read"]
    /\ UNCHANGED Others

\* the body is exhausted: copy to the target, response.close(), and
\* `if callback and not size: for i in range(99): callback()`
progress_tail ==
    /\ dl.pc = "read"
    /\ dl.readb = dl.body
    /\ dl' = [dl EXCEPT !.pc = "last",
                        !.calls = IF size_truthy(dl) THEN dl.calls
                                  ELSE Called(dl, TailCallbacks)]
    /\ UNCHANGED Others

\* `if callback: callback()`
progress_last ==
    /\ dl.pc = "last"
    /\ dl' = [dl EXCEPT !.pc = "done", !.calls = Called(dl, 1)]
    /\ UNCHANGED Others

\* A response: with a content-length the body holds that many bytes.
Responses ==
    {d \in [hasLen : BOOLEAN, size : 0..MaxSize, body : 0..MaxSize] :
        IF d.hasLen THEN d.body = d.size ELSE d.size = 0}

InitProgress ==
    /\ \E r \in Responses, cb \in BOOLEAN :
          dl = [IdleDl EXCEPT !.pc = "read", !.hasLen = r.hasLen,
                              !.size = r.size, !.body = r.body, !.cb = cb]
    /\ srv = [p \in Paths |-> PlainFile]
    /\ catalog = [on |-> FALSE, ok |-> TRUE, keys |-> {}]
    /\ InitLocal

NextProgress ==
    \/ \E n \in 1..MaxChunk : progress_read(n)
    \/ progress_report
    \/ progress_write
    \/ progress_tail
    \/ progress_last

SpecProgress == InitProgress /\ [][NextProgress]_vars

\* ==================================================================== claims
\* The positions at which a thread runs the body of a locked method.
BodyPcs ==
    {"dl_info", "dl_fetch", "dl_save", "dl_dump", "dl_extract", "dl_rmtmp",
     "lp_check", "rm_check", "rm_primary", "rm_info", "unlock"}

InBody(t) == th[t].pc \in BodyPcs

\* No call is in progress.
Quiet == \A t \in Threads : th[t].pc = "done"

\* The download of t's call has run to its end and the call is about to return.
Downloaded(t) == th[t].pc = "unlock" /\ th[t].fetched /\ th[t].res = "ok"

\* The remote FileInfo of p, as the ServerFiles instance reports it now.
RemoteInfo(p) == server_info(download_server_info(sfinfo), p)

Overlapped(t, u) == u \in th[t].ov \/ t \in th[u].ov

\* ---- C1 (as stated; refuted): when download(P) with extract=true returns
\* for a P whose remote FileInfo carries any compression value, the local
\* path exists, <P>.tmp does not, and the sidecar holds that compression.
C1_AnyCompressionExtracted ==
    \A t \in Threads :
       (/\ th[t].op = "download" /\ th[t].ex
        /\ Downloaded(t)
        /\ th[t].info.comp # "none")
       => /\ fs[th[t].p].primary # "none"
          /\ ~fs[th[t].p].tmp
          /\ fs[th[t].p].sidecar = OkSidecar(th[t].info)

\* ---- C2 (amended): right after a successful download of a P whose remote
\* FileInfo has a well-formed datetime (and is still the one the download
\* read) needs_update(P) is false, and it is true when the FileInfo has no
\* datetime; once the server's datetime of P is a later second than the
\* sidecar's, needs_update(P) is true unless the instance answers from a
\* loaded catalog snapshot.
C2_FreshThenStale ==
    /\ \A t \in Threads :
          Downloaded(t) /\ RemoteInfo(th[t].p) = th[t].info
          => /\ th[t].info.dt.k = "ok" => needs_update(th[t].p) = "false"
             /\ th[t].info.dt.k = "none" => needs_update(th[t].p) = "true"
    /\ \A p \in Paths :
          (/\ fs[p].sidecar.k = "ok"
           /\ fs[p].sidecar.info.dt.k = "ok"
           /\ srv[p].info.dt.k = "ok"
           /\ srv[p].info.dt.s > fs[p].sidecar.info.dt.s
           /\ ~info_truthy(sfinfo))
          => needs_update(p) = "true"

\* C2, witness: a download of p has returned, the server's datetime of p
\* has since advanced to a later second, no snapshot is loaded, and
\* needs_update(p) is true.
C2_Witness ==
    \E t \in Threads :
       /\ th[t].op = "download" /\ th[t].pc = "done" /\ th[t].res = "ok"
       /\ fs[th[t].p].sidecar.k = "ok"
       /\ fs[th[t].p].sidecar.info.dt.k = "ok"
       /\ srv[th[t].p].info.dt.k = "ok"
       /\ srv[th[t].p].info.dt.s > fs[th[t].p].sidecar.info.dt.s
       /\ sfinfo.st = "absent"
       /\ needs_update(th[t].p) = "true"

\* C2 (as stated; refuted): after a successful download of any P, with or
\* without a datetime, needs_update(P) is false; and once the server's
\* datetime is a later second, needs_update(P) is true.
C2_Original ==
    /\ \A t \in Threads :
          Downloaded(t) /\ RemoteInfo(th[t].p) = th[t].info
          /\ th[t].info.dt.k \in {"ok", "none"}
          => needs_update(th[t].p) = "false"
    /\ \A p \in Paths :
          (/\ fs[p].sidecar.k = "ok"
           /\ fs[p].sidecar.info.dt.k = "ok"
           /\ srv[p].info.dt.k = "ok"
           /\ srv[p].info.dt.s > fs[p].sidecar.info.dt.s)
          => needs_update(p) = "true"

\* ---- C3 (amended): concurrent download(P) calls are serialized by the
\* path lock, so no two of them are inside the body at once, and every one
\* that returns has run its own network fetch of P to completion.
C3_SerializedEachFetches ==
    /\ \A t, u \in Threads :
          (/\ t # u
           /\ th[t].op = "download" /\ th[u].op = "download"
           /\ th[t].p = th[u].p)
          => ~(InBody(t) /\ InBody(u))
    /\ \A t \in Threads :
          (/\ th[t].op = "download"
           /\ th[t].pc \in {"unlock", "done"}
           /\ th[t].res = "ok")
          => th[t].fetched

\* C3, witness: two overlapping download calls of one path have both
\* returned, and each has fetched.
C3_Witness ==
    \E t, u \in Threads :
       /\ t # u /\ Overlapped(t, u)
       /\ th[t].op = "download" /\ th[u].op = "download"
       /\ th[t].p = th[u].p
       /\ th[t].pc = "done" /\ th[u].pc = "done"
       /\ th[t].res = "ok" /\ th[u].res = "ok"
       /\ th[t].fetched /\ th[u].fetched

\* C3 (as stated; refuted): of two overlapping download(P) calls exactly
\* one fetches; the other finds the file and does not fetch again.
C3_Original ==
    \A t, u \in Threads :
       (/\ t # u /\ Overlapped(t, u)
        /\ th[t].op = "download" /\ th[u].op = "download"
        /\ th[t].p = th[u].p)
       => ~(th[t].fetched /\ th[u].fetched)

\* ---- C4: for one normalized path at most one thread at a time runs the
\* body of download, remove or localpath_download, because every request
\* for the path's lock gets the same lock, which its holder owns.
C4_MutualExclusion ==
    /\ \A t, u \in Threads :
          t # u /\ InBody(t) /\ InBody(u)
          => lock_key(th[t].p) # lock_key(th[u].p)
    /\ \A t, u \in Threads :
          (/\ th[t].pc \in BodyPcs \cup {"acquire"}
           /\ th[u].pc \in BodyPcs \cup {"acquire"}
           /\ lock_key(th[t].p) = lock_key(th[u].p))
          => th[t].lk = th[u].lk
    /\ \A t \in Threads : InBody(t) => rlock[th[t].lk].owner = t

\* C4, witness: one thread is inside the body of a mutating method while
\* another, calling a different method on the same path, waits for the
\* same lock.
C4_Witness ==
    \E t, u \in Threads :
       /\ t # u
       /\ InBody(t) /\ th[t].pc # "unlock"
       /\ th[u].pc = "acquire"
       /\ th[t].p = th[u].p /\ th[t].op # th[u].op
       /\ th[t].lk = th[u].lk
       /\ rlock[th[u].lk].owner = t

C6_SecondCallNoDownload ==
    \A t \in Threads :
       th[t].op = "localpath_download" /\ th[t].again => ~th[t].fetched

C8_NeedsUpdateExactly ==
    Quiet =>
    \A p \in Paths :
       needs_update(p) =
          IF \/ fs[p].sidecar.k = "absent"
             \/ fs[p].sidecar.info.dt.k = "none"
             \/ RemoteInfo(p).dt.k = "none"
             \/ /\ fs[p].sidecar.info.dt.k = "ok"
                /\ RemoteInfo(p).dt.k = "ok"
                /\ RemoteInfo(p).dt.s > fs[p].sidecar.info.dt.s
          THEN "true" ELSE "false"

\* ---- C9 (as stated; refuted): needs_update(P) returns true whenever the
\* primary artifact of P is absent, sidecar or not (stated here for the
\* datetimes that are well formed, where needs_update does return).
C9_TrueWhenFileAbsent ==
    Quiet =>
    \A p \in Paths :
       (/\ fs[p].primary = "none"
        /\ fs[p].sidecar.info.dt.k # "bad"
        /\ RemoteInfo(p).dt.k # "bad")
       => needs_update(p) = "true"

\* ---- C10 (as stated; refuted): whenever the local info of P cannot be
\* retrieved or interpreted (no sidecar, a sidecar that is not valid JSON,
\* a datetime not in the format) needs_update(P) returns true.
C10_TrueOnLocalFailure ==
    Quiet =>
    \A p \in Paths :
       (\/ fs[p].sidecar.k \in {"absent", "partial"}
        \/ fs[p].sidecar.info.dt.k = "bad")
       => needs_update(p) = "true"

\* ---- C18 (as stated; refuted): when download(P) with extract=true returns
\* for a P whose remote FileInfo declares a compression that is none of gz,
\* bz2, tar.gz, tar.bz2, the downloaded file is still at <P>.tmp.
C18_UnknownKindStaysAtTmp ==
    \A t \in Threads :
       (/\ th[t].op = "download" /\ th[t].ex
        /\ Downloaded(t)
        /\ th[t].info.comp \notin {"none"} \cup TarKinds \cup StreamKinds)
       => fs[th[t].p].tmp

\* ---- C19: in download(P) the sidecar holds the FileInfo before extraction
\* starts, and when extraction fails the sidecar and <P>.tmp are both
\* present as the error leaves the call.
C19_SidecarBeforeExtraction ==
    \A t \in Threads :
       /\ th[t].pc = "dl_extract"
          => /\ fs[th[t].p].sidecar.k = "ok"
             /\ fs[th[t].p].sidecar.info = th[t].info
             /\ fs[th[t].p].tmp
       /\ th[t].pc = "unlock" /\ th[t].res = "ExtractError"
          => /\ fs[th[t].p].sidecar.k = "ok"
             /\ fs[th[t].p].sidecar.info = th[t].info
             /\ fs[th[t].p].tmp

\* C19, witness: the extraction of a downloaded archive has failed; the
\* sidecar with the archive's FileInfo and the .tmp file are on disk.
C19_Witness ==
    \E t \in Threads :
       /\ th[t].op = "download" /\ th[t].fetched
       /\ th[t].pc = "unlock" /\ th[t].res = "ExtractError"
       /\ th[t].pre.sidecar.k = "absent"
       /\ fs[th[t].p].sidecar.k = "ok"
       /\ fs[th[t].p].sidecar.info.comp \in TarKinds \cup StreamKinds
       /\ fs[th[t].p].tmp

\* A segment that the link parser drops from a scraped page.
HiddenSegment(seg) ==
    \/ startswith(seg, <<"_", "_">>) \/ startswith(seg, <<".">>)
    \/ startswith(seg, <<"?">>) \/ startswith(seg, Slash)

\* The last listfiles call of the ServerFiles instance returned only files
\* (no directory, no sidecar) that lie under its prefix.
ListedUnderPrefix ==
    \A f \in sf.files :
       /\ Len(sf.pfx) <= Len(f) /\ SubSeq(f, 1, Len(sf.pfx)) = sf.pfx
       /\ \E p \in WebPaths : segments(p) = f
       /\ ~endswith(f[Len(f)], DotInfo)

\* ---- C14 (amended): ServerFiles.listfiles(prefix) returns, from the
\* snapshot and from scraped pages alike, only files under the prefix, no
\* directory and no sidecar; listfiles() returns a superset of it when the
\* instance answers from a snapshot, and when it scrapes for every prefix
\* none of whose segments the link parser hides.
C14_ListfilesUnderPrefix ==
    sf.op = "listfiles" /\ sf.res = "ok"
    => /\ ListedUnderPrefix
       /\ (info_truthy(sfinfo) \/ \A i \in 1..Len(sf.pfx) : ~HiddenSegment(sf.pfx[i]))
          => sf.files \subseteq server_listfiles(sfinfo, <<>>, TRUE)

\* C14, witness: a directory was listed by scraping; its page links the
\* file and the file's sidecar, the file alone was returned, and the root
\* lists more.
C14_Witness ==
    /\ sf.op = "listfiles" /\ sf.res = "ok" /\ sf.pfx = <<SegD>>
    /\ sfinfo.st = "absent"
    /\ srv["p1"].info # NoInfo
    /\ sf.files = {segments("p1")}
    /\ segments("p2") \in server_listfiles(sfinfo, <<>>, TRUE)

\* C14 (as stated; refuted): ... and for every prefix listfiles() returns a
\* superset of listfiles(prefix).
C14_Original ==
    sf.op = "listfiles" /\ sf.res = "ok"
    => /\ ListedUnderPrefix
       /\ sf.files \subseteq server_listfiles(sfinfo, <<>>, TRUE)

\* ---- C16 (as stated; refuted): with the snapshot loaded, empty or not,
\* info(path) returns the snapshot's entry for path, or the empty mapping,
\* and requests no .info sidecar.
C16_InfoFromLoadedSnapshot ==
    sf.op = "info" /\ sf.res = "ok" /\ sfinfo.st = "loaded"
    => /\ sf.info = IF sf.p \in DOMAIN sfinfo.map
                    THEN sfinfo.map[sf.p] ELSE NoInfo
       /\ sf.asked = {}

Spaced(parts) ==
    IF Len(parts) = 0 THEN <<>>
    ELSE IF Len(parts) = 1 THEN parts[1]
    ELSE parts[1] \o <<" ">> \o parts[2]

\* The search text of an entry under the flags of the call.
SearchText(e) ==
    (IF sr.in_tag THEN Spaced(e.tags) ELSE <<>>)
    \o (IF sr.in_title THEN e.title ELSE <<>>)
    \o (IF sr.in_name THEN Spaced(e.path) ELSE <<>>)

SameLetter(x, y) == x = y \/ {x, y} \in {{"a", "A"}, {"b", "B"}}

\* s occurs in text as a contiguous substring, case counting or not.
Occurs(s, text) ==
    \E i \in 1..(Len(text) + 1) :
       /\ i + Len(s) - 1 <= Len(text)
       /\ \A k \in 1..Len(s) :
             IF sr.case_sensitive THEN text[i + k - 1] = s[k]
             ELSE SameLetter(text[i + k - 1], s[k])

Wanted(e) == \A k \in 1..Len(sr.sstrings) : Occurs(sr.sstrings[k], SearchText(e))

\* ---- C15: _search returns exactly the paths of the mapping for which
\* every query substring occurs as a contiguous substring of the search
\* text (space-joined tags, then title, then space-joined segments, each if
\* its flag is set), case ignored unless case_sensitive, in the mapping's
\* order.
C15_SearchPredicate ==
    sr.pc = "done"
    => sr.found = LET hits == SelectSeq(sr.si, Wanted)
                  IN [i \in 1..Len(hits) |-> hits[i].path]

\* C15, witness: of two entries the second alone is returned; its match
\* needs the space between two tags and a letter of the other case.
C15_Witness ==
    /\ sr.pc = "done" /\ ~sr.case_sensitive /\ sr.in_tag
    /\ Len(sr.si) = 2 /\ Len(sr.found) = 1
    /\ sr.found[1] = sr.si[2].path
    /\ sr.sstrings = <<<<"a", " ", "b">>>>

\* p is strictly below the prefix pfx.
StrictlyBelow(p, pfx) ==
    Len(pfx) < Len(segments(p)) /\ SubSeq(segments(p), 1, Len(pfx)) = pfx

\* ---- C11: LocalFiles.listfiles(prefix) returns normally, and every path
\* it returns lies below the prefix and has its primary artifact and a
\* sidecar that parses on disk; a path with only one of the two, or with a
\* sidecar that does not parse, is not returned.
C11_ListedHaveBoth ==
    \A t \in Threads :
       th[t].op = "listfiles" /\ th[t].pc = "done"
       => /\ th[t].res = "ok"
          /\ \A f \in th[t].out :
                \E p \in Paths :
                   /\ segments(p) = f /\ StrictlyBelow(p, th[t].pfx)
                   /\ fs[p].primary # "none"
                   /\ fs[p].sidecar.k = "ok"

\* C11, witness: after a download the root was listed; one path, with file
\* and sidecar, is returned, the other has a file and a sidecar that does
\* not parse and is left out.
C11_Witness ==
    \E t \in Threads :
       /\ th[t].op = "listfiles" /\ th[t].pc = "done" /\ th[t].pfx = <<>>
       /\ th[t].out = {segments("p2")}
       /\ fs["p2"].primary = "file" /\ fs["p2"].sidecar.k = "ok"
       /\ locks[lock_key("p2")] # NoLock
       /\ fs["p1"].primary = "file" /\ fs["p1"].sidecar.k = "partial"

\* ---- C12: update_all(prefix) changes nothing of a path that was not a
\* tracked entry below the prefix when it was called (on an empty cache it
\* changes nothing at all, and needs_update stays true for every path).
C12_UpdateAllOnlyTracked ==
    \A t \in Threads :
       th[t].op = "update_all"
       => /\ \A p \in Paths :
                ~(/\ StrictlyBelow(p, th[t].pfx)
                  /\ th[t].fs0[p].primary # "none"
                  /\ th[t].fs0[p].sidecar.k = "ok")
                => fs[p] = th[t].fs0[p]
          /\ (\A p \in Paths : th[t].fs0[p] = NoFile) /\ th[t].pc = "done"
             => \A p \in Paths : fs[p] = NoFile /\ needs_update(p) = "true"

\* C12, witness: update_all has returned after downloading a tracked file
\* again; the other path, which the server has too, was a file without a
\* sidecar and still is.
C12_Witness ==
    \E t \in Threads :
       /\ th[t].op = "update_all" /\ th[t].pc = "done" /\ th[t].res = "ok"
       /\ th[t].fs0["p1"] = Tracked /\ fs["p1"] # Tracked
       /\ th[t].fs0["p2"] = Orphan /\ fs["p2"] = Orphan
       /\ srv["p2"].status = 200

\* ---- C13 (as stated; refuted): once download has returned for every path
\* that ServerFiles.listfiles(prefix) lists, LocalFiles.listfiles(prefix)
\* and ServerFiles.listfiles(prefix) are the same set and the two allinfo
\* are the same mapping (stated for a prefix that is the root or a
\* directory and a repository that held nothing before).
C13_MirrorEqualsServer ==
    \A t \in Threads :
       (/\ th[t].op = "download_listed" /\ th[t].pc = "done" /\ th[t].res = "ok"
        /\ Len(th[t].pfx) <= 1
        /\ \A p \in Paths : th[t].fs0[p] = NoFile)
       => /\ local_listfiles(th[t].pfx) = server_listfiles(sfinfo, th[t].pfx, TRUE)
          /\ local_allinfo(th[t].pfx) = server_allinfo(sfinfo, th[t].pfx, TRUE)

\* ---- C20: when GET P answers 404 download(P) raises NotFound, and
\* IOError for any other status but 200; it has then written no sidecar and
\* left the primary artifact and the sidecar P had as they were.
C20_FailedGetLeavesFiles ==
    \A t \in Threads :
       th[t].op = "download" /\ th[t].pc = "unlock" /\ srv[th[t].p].status # 200
       => /\ th[t].res = IF srv[th[t].p].status = 404 THEN "NotFound" ELSE "IOError"
          /\ fs[th[t].p] = th[t].pre
          /\ ~th[t].fetched

\* C20, witness: download of a tracked path got a 500 answer and raises
\* IOError; the file and its sidecar are as before.
C20_Witness ==
    \E t \in Threads :
       /\ th[t].op = "download" /\ th[t].pc = "unlock" /\ th[t].res = "IOError"
       /\ srv[th[t].p].status = 500
       /\ th[t].pre = Tracked /\ fs[th[t].p] = Tracked

\* t waits for a lock that another thread holds.
Blocked(t) ==
    th[t].pc = "acquire" /\ rlock[th[t].lk].owner \notin {"none", t}

\* ---- C21: a thread whose call has returned or raised holds no lock, and
\* a thread that is not inside a locked method holds none either; the
\* download that localpath_download runs is run under the lock its caller
\* took once, without asking for it again; and whenever some call is
\* unfinished, some unfinished thread is not blocked on a lock.
C21_NoLeakNoDeadlock ==
    /\ \A t \in Threads, l \in LockIds :
          rlock[l].owner = t => InBody(t) /\ th[t].lk = l /\ rlock[l].count = 1
    /\ \A l \in LockIds : rlock[l].owner = "none" <=> rlock[l].count = 0
    /\ \A t \in Threads : InBody(t) => rlock[th[t].lk].owner = t
    /\ (\E t \in Threads : th[t].pc # "done")
       => \E t \in Threads : th[t].pc # "done" /\ ~Blocked(t)

\* C21, witness: one thread is inside the download that
\* localpath_download runs, under the lock it took once; the other thread
\* waits for that lock, and is the only one blocked.
C21_Witness ==
    \E t, u \in Threads :
       /\ t # u
       /\ Blocked(t) /\ th[t].op = "remove"
       /\ th[u].op = "localpath_download" /\ th[u].pc = "dl_fetch"
       /\ th[u].lk = th[t].lk
       /\ rlock[th[u].lk] = [owner |-> u, count |-> 1]

\* What the step of needs_update that t is about to take answers: its
\* local stage reads the sidecar now, its remote stage compares the server's
\* FileInfo with the sidecar it read.
CheckAnswer(t) ==
    IF th[t].pc = "nu_local"
    THEN local_stage(fs[th[t].p].sidecar)
    ELSE remote_stage(server_info(sfinfo', th[t].p), th[t].info)

InCheck(t) == th[t].op = "update" /\ th[t].pc \in {"nu_local", "nu_remote"}

\* ---- C22 (amended): update(P) runs its staleness check outside the path
\* lock (the checking thread owns no lock and has fetched nothing) and goes
\* on to download exactly when its own check answered true; only the
\* downloads of concurrent update(P) calls are serialized, no two of them are
\* inside the body at once.
C22_CheckThenLockedDownload ==
    /\ [](\A t \in Threads :
             InCheck(t) => /\ \A l \in LockIds : rlock[l].owner # t
                           /\ ~th[t].fetched)
    /\ [](\A t, u \in Threads :
             (/\ t # u
              /\ th[t].op = "update" /\ th[u].op = "update"
              /\ th[t].p = th[u].p)
             => ~(InBody(t) /\ InBody(u)))
    /\ [][\A t \in Threads :
             (InCheck(t) /\ th'[t].pc # th[t].pc)
             => (th'[t].pc = "getlock" <=> CheckAnswer(t) = "true")]_vars

\* C22, witness: two overlapping update calls of one path have both returned
\* and each has downloaded the path.
C22_Witness ==
    \E t, u \in Threads :
       /\ t # u /\ Overlapped(t, u)
       /\ th[t].op = "update" /\ th[u].op = "update"
       /\ th[t].p = th[u].p
       /\ th[t].pc = "done" /\ th[u].pc = "done"
       /\ th[t].res = "ok" /\ th[u].res = "ok"
       /\ th[t].fetched /\ th[u].fetched

\* C22 (as stated; refuted): of two update(P) calls of two threads that
\* overlap in time at most one downloads P.
C22_UpdateDownloadsOnce ==
    \A t, u \in Threads :
       (/\ t # u /\ Overlapped(t, u)
        /\ th[t].op = "update" /\ th[u].op = "update"
        /\ th[t].p = th[u].p)
       => ~(th[t].fetched /\ th[u].fetched)

\* ---- C23 (as stated; refuted): in every state with no call in progress
\* that download, localpath_download, update and remove calls reach when
\* each of them returned without raising, the sidecar of a path exists if
\* and only if its primary artifact exists.
C23_TrackedOrAbsent ==
    (Quiet /\ \A t \in Threads : th[t].res \in Returns \cup {"none"})
    => \A p \in Paths :
          fs[p].sidecar.k # "absent" <=> fs[p].primary # "none"
====
